---- MODULE Spec2Model ----
(***************************************************************************)
(* CharacterNFT Solana program (contracts/character/solana/program.rs).    *)
(*                                                                         *)
(* The six instructions of the program are modelled as atomic actions over *)
(* the ProgramState and Character accounts.  An instruction that returns   *)
(* an error leaves every account as it was (the runtime discards the       *)
(* account writes, lamport transfers and logged events of a failed         *)
(* instruction); its outcome is recorded in result, the lamport transfers  *)
(* and events of the last instruction in transfers and events, and what a  *)
(* failed instruction had done before it failed in undone.                 *)
(*                                                                         *)
(* u64 and u128 values are little-endian sequences of base-256 limbs (8    *)
(* and 16 of them), so that the fee arithmetic keeps its real width.       *)
(***************************************************************************)
EXTENDS Integers, Sequences, FiniteSets

VARIABLES
    states,      \* state address -> ProgramState account, or NoAccount
    characters,  \* character address -> Character account, or NoAccount
    call,        \* the last instruction invoked: its name, signer and accounts
    result,      \* its outcome: "Ok" or the error it returned
    transfers,   \* the system_program::transfer calls it made, in order
    events,      \* the events it emitted, in order
    undone,      \* what its handler had done when it failed, rolled back by the runtime
    minted,      \* history: state address -> token ids issued by mint, in order
    advanced     \* history: character address -> successful advance_stage calls

vars == <<states, characters, call, result, transfers, events, undone, minted, advanced>>

----------------------------------------------------------------------------
(* Fixed-width integers.                                                   *)

\* The limbs are bytes.
LimbBase == 2^8
U64Limbs == 8
U128Limbs == 16

\* An address at which no account has been created.
NoAccount == [account |-> "none"]

\* Option<T>
None == [some |-> FALSE]
Some(x) == [some |-> TRUE, value |-> x]

\* How an expression that can panic ends.
Panicked == [panic |-> TRUE]
Returned(x) == [panic |-> FALSE, value |-> x]

\* A u64 whose value n is below 2^31, as limbs.
U64(n) ==
    [i \in 1..U64Limbs |->
        CASE i = 1 -> n % 256
          [] i = 2 -> (n \div 256) % 256
          [] i = 3 -> (n \div 65536) % 256
          [] i = 4 -> (n \div 16777216) % 256
          [] OTHER -> 0]

U64Zero == [i \in 1..U64Limbs |-> 0]
U64Max == [i \in 1..U64Limbs |-> LimbBase - 1]

\* `x as u128` of a u64 x: zero extension.
AsU128(x) == [i \in 1..U128Limbs |-> IF i <= Len(x) THEN x[i] ELSE 0]

\* `x as u64` of a u128 x: the low 64 bits.
AsU64(x) == [i \in 1..U64Limbs |-> x[i]]

\* The limbs i.. of a * m + carry (m a u16 value), then the carry out of the last.
RECURSIVE MulLimbs(_, _, _, _)
MulLimbs(a, m, i, carry) ==
    IF i > Len(a)
    THEN <<carry>>
    ELSE <<(a[i] * m + carry) % LimbBase>>
         \o MulLimbs(a, m, i + 1, (a[i] * m + carry) \div LimbBase)

\* u128::checked_mul(a, m as u128): None when the product needs more than 128 bits.
CheckedMul(a, m) ==
    LET product == MulLimbs(a, m, 1, 0)
    IN  IF product[Len(a) + 1] # 0 THEN None ELSE Some(SubSeq(product, 1, Len(a)))

\* The limbs 1..i of the quotient of a by d, rem being the remainder of the
\* limbs above i (long division, from the most significant limb).
RECURSIVE DivLimbs(_, _, _, _)
DivLimbs(a, d, i, rem) ==
    IF i = 0
    THEN <<>>
    ELSE DivLimbs(a, d, i - 1, (rem * LimbBase + a[i]) % d)
         \o <<(rem * LimbBase + a[i]) \div d>>

\* u128::checked_div(a, d): None when d is 0.
CheckedDiv(a, d) == IF d = 0 THEN None ELSE Some(DivLimbs(a, d, Len(a), 0))

\* Option::unwrap: a None panics.
Unwrap(x) == IF x.some THEN Returned(x.value) ELSE Panicked

\* The limbs i.. of a - b - borrow, then the borrow out of the last.
RECURSIVE SubLimbs(_, _, _, _)
SubLimbs(a, b, i, borrow) ==
    IF i > Len(a)
    THEN <<borrow>>
    ELSE <<(a[i] - b[i] - borrow + LimbBase) % LimbBase>>
         \o SubLimbs(a, b, i + 1, IF a[i] - b[i] - borrow < 0 THEN 1 ELSE 0)

\* a - b on u64, modulo 2^64.
WrappingSub(a, b) == SubSeq(SubLimbs(a, b, 1, 0), 1, Len(a))

\* `a - b` on u64.  An underflow panics in a build with overflow checks and
\* wraps in a build without them: both outcomes are possible.
U64Sub(a, b) ==
    IF SubLimbs(a, b, 1, 0)[Len(a) + 1] = 1
    THEN {Panicked, Returned(WrappingSub(a, b))}
    ELSE {Returned(WrappingSub(a, b))}

\* The limbs i.. of a + carry, then the carry out of the last.
RECURSIVE IncLimbs(_, _, _)
IncLimbs(a, i, carry) ==
    IF i > Len(a)
    THEN <<carry>>
    ELSE <<(a[i] + carry) % LimbBase>> \o IncLimbs(a, i + 1, (a[i] + carry) \div LimbBase)

\* `a += 1` on u64: panics or wraps at u64::MAX, as for U64Sub.
U64Inc(a) ==
    LET sum == IncLimbs(a, 1, 1)
    IN  IF sum[Len(a) + 1] = 1
        THEN {Panicked, Returned(SubSeq(sum, 1, Len(a)))}
        ELSE {Returned(SubSeq(sum, 1, Len(a)))}

----------------------------------------------------------------------------
(* The fee split of transfer_from.                                         *)

\* A divisor of 1000 in place of 10000.
BpsDenominatorTenth == 10 ^ 3

BpsDenominator == 10000
MaxFeeBps == 10000
LicensedStage == 4

\* platform_cut with the product taken in 64 bits instead of 128.
PlatformCutNarrow(sale_price_lamports, transaction_fee_bps) ==
    LET product == CheckedMul(AsU128(sale_price_lamports), transaction_fee_bps).value
        narrow == AsU128(AsU64(product))
    IN  Returned(AsU64(CheckedDiv(narrow, BpsDenominator).value))

\* platform_cut (lines 87-91): panics when an unwrap fails.
PlatformCut(sale_price_lamports, transaction_fee_bps) ==
    LET product == Unwrap(CheckedMul(AsU128(sale_price_lamports), transaction_fee_bps))
        quotient == IF product.panic THEN Panicked
                    ELSE Unwrap(CheckedDiv(product.value, BpsDenominator))
    IN  IF quotient.panic THEN Panicked ELSE Returned(AsU64(quotient.value))

\* seller_proceeds (line 108): the outcomes of sale_price_lamports - platform_cut.
SellerProceeds(sale_price_lamports, platform_cut) ==
    U64Sub(sale_price_lamports, platform_cut)

----------------------------------------------------------------------------
(* Accounts.                                                               *)

\* #[account] pub struct ProgramState (lines 172-178)
ProgramState(platform, mint_fee_lamports, transaction_fee_bps, next_token_id) ==
    [platform |-> platform,
     mint_fee_lamports |-> mint_fee_lamports,
     transaction_fee_bps |-> transaction_fee_bps,
     next_token_id |-> next_token_id]

\* #[account] pub struct Character (lines 180-189)
Character(token_id, creator, owner, created_at, stage, metadata_uri, trait_hash) ==
    [token_id |-> token_id,
     creator |-> creator,
     owner |-> owner,
     created_at |-> created_at,
     stage |-> stage,
     metadata_uri |-> metadata_uri,
     trait_hash |-> trait_hash]

\* A metadata URI: its text and its length in bytes.
Uri(text, bytes) == [text |-> text, bytes |-> bytes]

\* The bytes the Character account reserves for metadata_uri (space = ... + 4 + 256 + ...).
MaxUriBytes == 256

\* Whether a Character holding metadata_uri serializes into its account on exit.
Serializes(metadata_uri) == metadata_uri.bytes <= MaxUriBytes

\* system_program::Transfer { from, to } with its lamports
Transfer(from, to, lamports) == [from |-> from, to |-> to, lamports |-> lamports]

\* The events (lines 248-267)
CharacterMinted(token_id, creator, trait_hash) ==
    [event |-> "CharacterMinted", token_id |-> token_id, creator |-> creator,
     trait_hash |-> trait_hash]

\* CharacterTransferred with from and to exchanged.
CharacterTransferredSwapped(token_id, from, to, price) ==
    [event |-> "CharacterTransferred", token_id |-> token_id, from |-> to,
     to |-> from, price |-> price]

CharacterTransferred(token_id, from, to, price) ==
    [event |-> "CharacterTransferred", token_id |-> token_id, from |-> from,
     to |-> to, price |-> price]

StageAdvanced(token_id, new_stage) ==
    [event |-> "StageAdvanced", token_id |-> token_id, new_stage |-> new_stage]

----------------------------------------------------------------------------
(* Guards.                                                                 *)

\* initialize without its bound: any u16 passes.
InitializeFeeOkAnyU16(transaction_fee_bps) == transaction_fee_bps <= 65535

\* require!(transaction_fee_bps <= 10000, FeeTooHigh) in initialize (line 27)
InitializeFeeOk(transaction_fee_bps) == transaction_fee_bps <= MaxFeeBps

\* set_transaction_fee with a strict bound: 10000 itself is refused.
SetTransactionFeeOkStrict(new_fee_bps) == new_fee_bps < MaxFeeBps

\* require!(new_fee_bps <= 10000, FeeTooHigh) in set_transaction_fee (line 164)
SetTransactionFeeOk(new_fee_bps) == new_fee_bps <= MaxFeeBps

\* transfer_from checking the creator instead of the owner.
TransferOwnerOkCreator(character, owner) == character.creator = owner

\* require!(character.owner == ctx.accounts.owner.key(), NotOwner) in transfer_from (line 82)
TransferOwnerOk(character, owner) == character.owner = owner

\* advance_stage checking the creator instead of the owner.
AdvanceOwnerOkCreator(character, owner) == character.creator = owner

\* require!(character.owner == ctx.accounts.owner.key(), NotOwner) in advance_stage (line 140)
AdvanceOwnerOk(character, owner) == character.owner = owner

\* advance_stage with an inclusive bound: stage 4 may still advance.
AdvanceStageOkInclusive(character) == character.stage <= LicensedStage

\* advance_stage stopping one stage early: stage 3 no longer advances.
AdvanceStageOkBelowVideo(character) == character.stage < LicensedStage - 1

\* require!(character.stage < 4, AlreadyLicensed) (line 141)
AdvanceStageOk(character) == character.stage < LicensedStage

\* set_mint_fee without its authority check: any signer passes.
SetMintFeePlatformOkAnySigner(state, platform) == platform = platform

\* require!(state.platform == ctx.accounts.platform.key(), NotOwner) in set_mint_fee (line 156)
SetMintFeePlatformOk(state, platform) == state.platform = platform

\* require!(state.platform == ctx.accounts.platform.key(), NotOwner) in set_transaction_fee (line 163)
SetTransactionFeePlatformOk(state, platform) == state.platform = platform

\* #[account(constraint = platform.key() == state.platform)] of MintCharacter (line 211)
MintPlatformConstraint(state, platform) == platform = state.platform

\* #[account(constraint = platform.key() == state.platform)] of TransferCharacter (line 226)
TransferPlatformConstraint(state, platform) == platform = state.platform

----------------------------------------------------------------------------
(* Outcomes.                                                               *)

\* What a handler does to an account in memory, before the account is stored on exit.
Write(account) == [write |-> account]

\* An instruction that fails after its handler did `done` (transfers made,
\* accounts written in memory, events logged, in order): the runtime rolls
\* all of it back, so no account changes, no lamport moves, no event is logged.
Reject(error, done) ==
    /\ result' = error
    /\ transfers' = <<>>
    /\ events' = <<>>
    /\ undone' = done
    /\ UNCHANGED <<states, characters, minted, advanced>>

\* An instruction that returns Ok(()).
Accept(requested, emitted) ==
    /\ result' = "Ok"
    /\ transfers' = requested
    /\ events' = emitted
    /\ undone' = <<>>

----------------------------------------------------------------------------
(* Instructions.  Each action is one instruction, from the validation of   *)
(* its accounts (the #[derive(Accounts)] struct) to its return.  The host  *)
(* may refuse any system_program::transfer the instruction makes (the      *)
(* payer did not sign, or lacks the lamports): `refused` is 0 when it      *)
(* executes them all and k when it refuses the k-th.                       *)

\* initialize accepting a state account that already holds a ProgramState.
InitializeAgain(platform, state, mint_fee_lamports, transaction_fee_bps) ==
    /\ call' = [op |-> "initialize", signer |-> platform, state |-> state]
    /\ IF ~InitializeFeeOk(transaction_fee_bps)
       THEN Reject("FeeTooHigh", <<>>)
       ELSE /\ states' = [states EXCEPT ![state] =
                    ProgramState(platform, mint_fee_lamports, transaction_fee_bps, U64Zero)]
            /\ UNCHANGED <<characters, minted, advanced>>
            /\ Accept(<<>>, <<>>)

\* pub fn initialize (lines 22-34) with Initialize (lines 193-200)
Initialize(platform, state, mint_fee_lamports, transaction_fee_bps) ==
    /\ call' = [op |-> "initialize", signer |-> platform, state |-> state]
    /\ IF states[state] # NoAccount
       THEN Reject("AccountInUse", <<>>)                 \* #[account(init)]
       ELSE IF ~InitializeFeeOk(transaction_fee_bps)
       THEN Reject("FeeTooHigh", <<>>)
       ELSE /\ states' = [states EXCEPT ![state] =
                    ProgramState(platform, mint_fee_lamports, transaction_fee_bps, U64Zero)]
            /\ UNCHANGED <<characters, minted, advanced>>
            /\ Accept(<<>>, <<>>)

\* mint requesting no fee transfer.
MintTransfersNone(state, creator, platform) == <<>>

\* The transfers mint requests (lines 44-55)
MintTransfers(state, creator, platform) ==
    IF state.mint_fee_lamports # U64Zero
    THEN <<Transfer(creator, platform, state.mint_fee_lamports)>>
    ELSE <<>>

\* The Character mint writes (lines 57-64)
MintCharacter(state, creator, now, metadata_uri, trait_hash) ==
    Character(state.next_token_id, creator, creator, now, 0, metadata_uri, trait_hash)

\* mint without the increment of the counter.
MintNextTokenIdKept(state) == {Returned(state.next_token_id)}

\* state.next_token_id += 1 (line 66): the outcomes
MintNextTokenId(state) == U64Inc(state.next_token_id)

\* mint writing the Character and the counter before it transfers the fee.
MintWriteFirst(creator, state, character, platform, metadata_uri, trait_hash, now) ==
    /\ call' = [op |-> "mint", signer |-> creator, state |-> state,
                character |-> character]
    /\ IF states[state] = NoAccount
       THEN Reject("AccountNotInitialized", <<>>)
       ELSE IF characters[character] # NoAccount
       THEN Reject("AccountInUse", <<>>)
       ELSE IF ~MintPlatformConstraint(states[state], platform)
       THEN Reject("ConstraintRaw", <<>>)
       ELSE LET requested == MintTransfers(states[state], creator, platform)
                record == MintCharacter(states[state], creator, now, metadata_uri, trait_hash)
                emitted == <<CharacterMinted(record.token_id, record.creator, trait_hash)>>
            IN  \E refused \in 0..Len(requested), next \in MintNextTokenId(states[state]) :
                    IF next.panic
                    THEN Reject("Panic", <<Write("character")>>)
                    ELSE IF refused # 0
                    THEN Reject("TransferFailed", <<Write("character"), Write("state")>>)
                    ELSE IF ~Serializes(record.metadata_uri)
                    THEN Reject("AccountDidNotSerialize",
                                <<Write("character"), Write("state")>>
                                    \o requested \o emitted)
                    ELSE /\ characters' = [characters EXCEPT ![character] = record]
                         /\ states' = [states EXCEPT ![state].next_token_id = next.value]
                         /\ minted' = [minted EXCEPT ![state] = Append(@, record.token_id)]
                         /\ UNCHANGED advanced
                         /\ Accept(requested, emitted)

\* pub fn mint (lines 36-75) with MintCharacter (lines 202-214)
Mint(creator, state, character, platform, metadata_uri, trait_hash, now) ==
    /\ call' = [op |-> "mint", signer |-> creator, state |-> state,
                character |-> character]
    /\ IF states[state] = NoAccount
       THEN Reject("AccountNotInitialized", <<>>)
       ELSE IF characters[character] # NoAccount
       THEN Reject("AccountInUse", <<>>)                 \* #[account(init)]
       ELSE IF ~MintPlatformConstraint(states[state], platform)
       THEN Reject("ConstraintRaw", <<>>)
       ELSE LET requested == MintTransfers(states[state], creator, platform)
                record == MintCharacter(states[state], creator, now, metadata_uri, trait_hash)
                emitted == <<CharacterMinted(record.token_id, record.creator, trait_hash)>>
            IN  \E refused \in 0..Len(requested), next \in MintNextTokenId(states[state]) :
                    IF refused # 0
                    THEN Reject("TransferFailed", <<>>)
                    ELSE IF next.panic
                    THEN Reject("Panic", requested \o <<Write("character")>>)
                    ELSE IF ~Serializes(record.metadata_uri)
                    THEN Reject("AccountDidNotSerialize",
                                requested \o <<Write("character"), Write("state")>>
                                          \o emitted)
                    ELSE /\ characters' = [characters EXCEPT ![character] = record]
                         /\ states' = [states EXCEPT ![state].next_token_id = next.value]
                         /\ minted' = [minted EXCEPT ![state] = Append(@, record.token_id)]
                         /\ UNCHANGED advanced
                         /\ Accept(requested, emitted)

\* A panic after the handler did `done`.
PanickedAfter(done) == [panic |-> TRUE, done |-> done]

\* The fee block of transfer_from with both transfers paid by the signing owner.
TransferFromTransfersOwnerPays(state, owner, recipient, platform, sale_price_lamports) ==
    IF sale_price_lamports = U64Zero
    THEN {Returned(<<>>)}
    ELSE LET platform_cut == PlatformCut(sale_price_lamports, state.transaction_fee_bps)
         IN  IF platform_cut.panic
             THEN {PanickedAfter(<<>>)}
             ELSE LET cut == IF platform_cut.value # U64Zero
                             THEN <<Transfer(owner, platform, platform_cut.value)>>
                             ELSE <<>>
                  IN  {IF seller_proceeds.panic
                       THEN PanickedAfter(cut)
                       ELSE IF seller_proceeds.value # U64Zero
                       THEN Returned(cut \o <<Transfer(owner, owner,
                                                        seller_proceeds.value)>>)
                       ELSE Returned(cut) :
                         seller_proceeds \in
                             SellerProceeds(sale_price_lamports, platform_cut.value)}

\* What the fee block of transfer_from requests (lines 85-121): the outcomes,
\* each the sequence of transfers it makes, or a panic after those made so far.
TransferFromTransfers(state, owner, recipient, platform, sale_price_lamports) ==
    IF sale_price_lamports = U64Zero
    THEN {Returned(<<>>)}
    ELSE LET platform_cut == PlatformCut(sale_price_lamports, state.transaction_fee_bps)
         IN  IF platform_cut.panic
             THEN {PanickedAfter(<<>>)}
             ELSE LET cut == IF platform_cut.value # U64Zero
                             THEN <<Transfer(recipient, platform, platform_cut.value)>>
                             ELSE <<>>
                  IN  {IF seller_proceeds.panic
                       THEN PanickedAfter(cut)
                       ELSE IF seller_proceeds.value # U64Zero
                       THEN Returned(cut \o <<Transfer(recipient, owner,
                                                        seller_proceeds.value)>>)
                       ELSE Returned(cut) :
                         seller_proceeds \in
                             SellerProceeds(sale_price_lamports, platform_cut.value)}

\* transfer_from rewriting the creator together with the owner.
TransferFromCharacterCreator(character, recipient) ==
    [character EXCEPT !.owner = recipient, !.creator = recipient]

\* character.owner = ctx.accounts.recipient.key() (line 123)
TransferFromCharacter(character, recipient) == [character EXCEPT !.owner = recipient]

\* pub fn transfer_from (lines 77-133) with TransferCharacter (lines 216-230)
TransferFrom(owner, character, recipient, platform, state, sale_price_lamports) ==
    /\ call' = [op |-> "transfer_from", signer |-> owner, state |-> state,
                character |-> character]
    /\ IF characters[character] = NoAccount \/ states[state] = NoAccount
       THEN Reject("AccountNotInitialized", <<>>)
       ELSE IF ~TransferPlatformConstraint(states[state], platform)
       THEN Reject("ConstraintRaw", <<>>)
       ELSE IF ~TransferOwnerOk(characters[character], owner)
       THEN Reject("NotOwner", <<>>)
       ELSE \E requested \in TransferFromTransfers(states[state], owner, recipient,
                                                    platform, sale_price_lamports) :
                IF requested.panic
                THEN Reject("Panic", requested.done)
                ELSE \E refused \in 0..Len(requested.value) :
                        IF refused # 0
                        THEN Reject("TransferFailed",
                                    SubSeq(requested.value, 1, refused - 1))
                        ELSE /\ characters' = [characters EXCEPT ![character] =
                                     TransferFromCharacter(@, recipient)]
                             /\ UNCHANGED <<states, minted, advanced>>
                             /\ Accept(requested.value,
                                       <<CharacterTransferred(
                                             characters[character].token_id,
                                             owner, recipient, sale_price_lamports)>>)

\* advance_stage skipping a stage.
AdvanceStageCharacterSkip(character, new_metadata_uri) ==
    [character EXCEPT !.stage = @ + 2, !.metadata_uri = new_metadata_uri]

\* character.stage += 1; character.metadata_uri = new_metadata_uri (lines 143-144)
AdvanceStageCharacter(character, new_metadata_uri) ==
    [character EXCEPT !.stage = @ + 1, !.metadata_uri = new_metadata_uri]

\* advance_stage checking the stage before the owner.
AdvanceStageLicensedFirst(owner, character, new_metadata_uri) ==
    /\ call' = [op |-> "advance_stage", signer |-> owner, character |-> character]
    /\ IF characters[character] = NoAccount
       THEN Reject("AccountNotInitialized", <<>>)
       ELSE IF ~AdvanceStageOk(characters[character])
       THEN Reject("AlreadyLicensed", <<>>)
       ELSE IF ~AdvanceOwnerOk(characters[character], owner)
       THEN Reject("NotOwner", <<>>)
       ELSE LET record == AdvanceStageCharacter(characters[character], new_metadata_uri)
                emitted == <<StageAdvanced(record.token_id, record.stage)>>
            IN  IF ~Serializes(record.metadata_uri)
                THEN Reject("AccountDidNotSerialize", <<Write("character")>> \o emitted)
                ELSE /\ characters' = [characters EXCEPT ![character] = record]
                     /\ advanced' = [advanced EXCEPT ![character] = @ + 1]
                     /\ UNCHANGED <<states, minted>>
                     /\ Accept(<<>>, emitted)

\* pub fn advance_stage (lines 135-152) with AdvanceStage (lines 232-237)
AdvanceStage(owner, character, new_metadata_uri) ==
    /\ call' = [op |-> "advance_stage", signer |-> owner, character |-> character]
    /\ IF characters[character] = NoAccount
       THEN Reject("AccountNotInitialized", <<>>)
       ELSE IF ~AdvanceOwnerOk(characters[character], owner)
       THEN Reject("NotOwner", <<>>)
       ELSE IF ~AdvanceStageOk(characters[character])
       THEN Reject("AlreadyLicensed", <<>>)
       ELSE LET record == AdvanceStageCharacter(characters[character], new_metadata_uri)
                emitted == <<StageAdvanced(record.token_id, record.stage)>>
            IN  IF ~Serializes(record.metadata_uri)
                THEN Reject("AccountDidNotSerialize", <<Write("character")>> \o emitted)
                ELSE /\ characters' = [characters EXCEPT ![character] = record]
                     /\ advanced' = [advanced EXCEPT ![character] = @ + 1]
                     /\ UNCHANGED <<states, minted>>
                     /\ Accept(<<>>, emitted)

\* pub fn set_mint_fee (lines 154-159) with AdminAction (lines 239-244)
SetMintFee(platform, state, new_fee_lamports) ==
    /\ call' = [op |-> "set_mint_fee", signer |-> platform, state |-> state]
    /\ IF states[state] = NoAccount
       THEN Reject("AccountNotInitialized", <<>>)
       ELSE IF ~SetMintFeePlatformOk(states[state], platform)
       THEN Reject("NotOwner", <<>>)
       ELSE /\ states' = [states EXCEPT ![state].mint_fee_lamports = new_fee_lamports]
            /\ UNCHANGED <<characters, minted, advanced>>
            /\ Accept(<<>>, <<>>)

\* set_transaction_fee storing the fee before it checks the bound.
SetTransactionFeeWriteFirst(platform, state, new_fee_bps) ==
    /\ call' = [op |-> "set_transaction_fee", signer |-> platform, state |-> state]
    /\ IF states[state] = NoAccount
       THEN Reject("AccountNotInitialized", <<>>)
       ELSE IF ~SetTransactionFeePlatformOk(states[state], platform)
       THEN Reject("NotOwner", <<>>)
       ELSE IF ~SetTransactionFeeOk(new_fee_bps)
       THEN Reject("FeeTooHigh", <<Write("state")>>)
       ELSE /\ states' = [states EXCEPT ![state].transaction_fee_bps = new_fee_bps]
            /\ UNCHANGED <<characters, minted, advanced>>
            /\ Accept(<<>>, <<>>)

\* pub fn set_transaction_fee (lines 161-167) with AdminAction (lines 239-244)
SetTransactionFee(platform, state, new_fee_bps) ==
    /\ call' = [op |-> "set_transaction_fee", signer |-> platform, state |-> state]
    /\ IF states[state] = NoAccount
       THEN Reject("AccountNotInitialized", <<>>)
       ELSE IF ~SetTransactionFeePlatformOk(states[state], platform)
       THEN Reject("NotOwner", <<>>)
       ELSE IF ~SetTransactionFeeOk(new_fee_bps)
       THEN Reject("FeeTooHigh", <<>>)
       ELSE /\ states' = [states EXCEPT ![state].transaction_fee_bps = new_fee_bps]
            /\ UNCHANGED <<characters, minted, advanced>>
            /\ Accept(<<>>, <<>>)

----------------------------------------------------------------------------
(* The callers.                                                            *)

NumPrincipals == 2
NumStates == 2
NumCharacters == 2

Principals == 1..NumPrincipals
StateAddrs == 1..NumStates
CharacterAddrs == 1..NumCharacters

TraitHashes == {"h1"}
Timestamps == {1700000000}

NoCall == [op |-> "none"]

\* No account exists and no instruction has run.
Init ==
    /\ states = [s \in StateAddrs |-> NoAccount]
    /\ characters = [c \in CharacterAddrs |-> NoAccount]
    /\ call = NoCall
    /\ result = "Ok"
    /\ transfers = <<>>
    /\ events = <<>>
    /\ undone = <<>>
    /\ minted = [s \in StateAddrs |-> <<>>]
    /\ advanced = [c \in CharacterAddrs |-> 0]

\* Any principal invokes any instruction on the accounts at S and C, with
\* arguments from the given sets.
Invoke(S, C, fees, bpss, prices, mintUris, stageUris) ==
    \/ \E p \in Principals, s \in S, fee \in fees, bps \in bpss :
           Initialize(p, s, fee, bps)
    \/ \E p \in Principals, s \in S, c \in C, pl \in Principals,
          uri \in mintUris, h \in TraitHashes, now \in Timestamps :
           Mint(p, s, c, pl, uri, h, now)
    \/ \E p \in Principals, c \in C, r \in Principals, pl \in Principals,
          s \in S, price \in prices :
           TransferFrom(p, c, r, pl, s, price)
    \/ \E p \in Principals, c \in C, uri \in stageUris :
           AdvanceStage(p, c, uri)
    \/ \E p \in Principals, s \in S, fee \in fees :
           SetMintFee(p, s, fee)
    \/ \E p \in Principals, s \in S, bps \in bpss :
           SetTransactionFee(p, s, bps)

(* One registry and one character, through their whole life.               *)

MintFees == {U64Zero, U64(100)}
FeeBps == {500, 10000, 10001}
SalePrices == {U64Zero, U64(1000)}
MintUris == {Uri("ipfs://text", 11), Uri("ipfs://long", 257)}
StageUris == {Uri("ipfs://img", 10), Uri("ipfs://long", 257)}

Next == Invoke({1}, {1}, MintFees, FeeBps, SalePrices, MintUris, StageUris)

Spec == Init /\ [][Next]_vars

(* One registry and one character, where the owner of a Character keeps    *)
(* advancing it: a successful advance_stage by the current owner is taken  *)
(* if it stays possible.                                                   *)

\* The current owner of the Character at c advances it.
OwnerAdvances(c) ==
    /\ characters[c] # NoAccount
    /\ \E uri \in StageUris : AdvanceStage(characters[c].owner, c, uri)
    /\ result' = "Ok"

SpecLive == Init /\ [][Next]_vars /\ \A c \in CharacterAddrs : WF_vars(OwnerAdvances(c))

(* One registry and several characters, under every instruction.           *)

NextCharacters ==
    Invoke({1}, CharacterAddrs, {U64(100)}, {500}, {U64(1000)},
           {Uri("ipfs://text", 11)}, {Uri("ipfs://img", 10)})

SpecCharacters == Init /\ [][NextCharacters]_vars

(* Several registries: every sequence of initialize and mint.              *)

NextRegistries ==
    \/ \E p \in Principals, s \in StateAddrs, fee \in MintFees, bps \in FeeBps :
           Initialize(p, s, fee, bps)
    \/ \E p \in Principals, s \in StateAddrs, c \in CharacterAddrs, pl \in Principals,
          h \in TraitHashes, now \in Timestamps :
           Mint(p, s, c, pl, Uri("ipfs://text", 11), h, now)

SpecRegistries == Init /\ [][NextRegistries]_vars

(* The fee split: transfer_from at every fee and sale price of SplitBps    *)
(* and SplitPrices, from the state that initialize (by principal 1) and    *)
(* one mint (by principal 2) leave.                                        *)

\* The u64 2^k.
U64Pow2(k) == [i \in 1..U64Limbs |-> IF i = (k \div 8) + 1 THEN 2^(k % 8) ELSE 0]

SplitBps == {0, 1, 2, 499, 500, 3333, 9999, 10000}

SplitPrices ==
    {U64(n) : n \in {0, 1, 2, 3, 19, 20, 21, 9999, 10000, 10001, 123456789, 2147483647}}
    \cup {U64Pow2(32), U64Pow2(50), U64Pow2(63), WrappingSub(U64Max, U64(1)), U64Max}

InitSplit ==
    \E bps \in SplitBps :
        /\ states = [s \in StateAddrs |->
                        IF s = 1 THEN ProgramState(1, U64Zero, bps, U64(1)) ELSE NoAccount]
        /\ characters = [c \in CharacterAddrs |->
                            IF c = 1
                            THEN Character(U64Zero, 2, 2, 1700000000, 0,
                                           Uri("ipfs://text", 11), "h1")
                            ELSE NoAccount]
        /\ call = [op |-> "mint", signer |-> 2, state |-> 1, character |-> 1]
        /\ result = "Ok"
        /\ transfers = <<>>
        /\ events = <<CharacterMinted(U64Zero, 2, "h1")>>
        /\ undone = <<>>
        /\ minted = [s \in StateAddrs |-> IF s = 1 THEN <<U64Zero>> ELSE <<>>]
        /\ advanced = [c \in CharacterAddrs |-> 0]

NextSplit ==
    \E p \in Principals, r \in Principals, pl \in Principals, price \in SplitPrices :
        TransferFrom(p, 1, r, pl, 1, price)

SpecSplit == InitSplit /\ [][NextSplit]_vars

----------------------------------------------------------------------------
(* Arithmetic for the properties: exact, on numbers wide enough for every  *)
(* product of a u64 and a u16.                                             *)

WideLimbs == U64Limbs + 3

Wide(x) == [i \in 1..WideLimbs |-> IF i <= Len(x) THEN x[i] ELSE 0]

RECURSIVE TimesFrom(_, _, _, _)
TimesFrom(x, m, i, carry) ==
    IF i > WideLimbs
    THEN <<>>
    ELSE <<(x[i] * m + carry) % 256>> \o TimesFrom(x, m, i + 1, (x[i] * m + carry) \div 256)

\* x * m, for a wide x below 2^64 and m below 2^16.
Times(x, m) == TimesFrom(x, m, 1, 0)

RECURSIVE PlusFrom(_, _, _, _)
PlusFrom(x, y, i, carry) ==
    IF i > WideLimbs
    THEN <<>>
    ELSE <<(x[i] + y[i] + carry) % 256>>
         \o PlusFrom(x, y, i + 1, (x[i] + y[i] + carry) \div 256)

\* x + y, for wide x and y below 2^80.
Plus(x, y) == PlusFrom(x, y, 1, 0)

\* x < y
Less(x, y) ==
    \E i \in 1..WideLimbs : x[i] < y[i] /\ \A j \in (i + 1)..WideLimbs : x[j] = y[j]

\* cut = floor(price * bps / 10000)
IsFloor(cut, price, bps) ==
    /\ ~Less(Times(price, bps), Times(cut, 10000))
    /\ Less(Times(price, bps), Plus(Times(cut, 10000), Wide(U64(10000))))

\* The lamports the transfers of `seq` pay to the principals of W.
RECURSIVE PaidTo(_, _)
PaidTo(seq, W) ==
    IF seq = <<>> THEN Wide(U64Zero)
    ELSE Plus(IF Head(seq).to \in W THEN Wide(Head(seq).lamports) ELSE Wide(U64Zero),
              PaidTo(Tail(seq), W))

\* A u64 below 2^17, as a number.
IsSmall(x) == x[3] < 2 /\ \A i \in 4..U64Limbs : x[i] = 0
ToNat(x) == x[1] + 256 * x[2] + 65536 * x[3]

\* The last instruction was `op` and returned Ok(()).
Succeeded(op) == call.op = op /\ result = "Ok"

----------------------------------------------------------------------------
(* C1.  After every successful transfer_from the transfers made add up to  *)
(* the sale price; the platform receives floor(sale_price * fee_bps /      *)
(* 10000) and the previous owner the rest (told apart when the previous    *)
(* owner is not the platform).                                             *)
C1_SplitIsExact ==
    Succeeded("transfer_from") =>
        LET price == events[1].price
            seller == events[1].from
            state == states[call.state]
            cut == PaidTo(transfers, {state.platform})
            proceeds == PaidTo(transfers, {seller})
        IN  /\ state.transaction_fee_bps <= 10000
            /\ PaidTo(transfers, Principals) = Wide(price)
            /\ seller # state.platform =>
                  /\ IsFloor(cut, Wide(price), state.transaction_fee_bps)
                  /\ Plus(cut, proceeds) = Wide(price)
                  /\ IsSmall(price) =>
                        /\ cut = Wide(U64((ToNat(price) * state.transaction_fee_bps)
                                           \div 10000))
                        /\ proceeds = Wide(U64(ToNat(price)
                               - (ToNat(price) * state.transaction_fee_bps) \div 10000))

C1_Witness ==
    /\ Succeeded("transfer_from")
    /\ events[1].price = U64Max
    /\ events[1].from # states[call.state].platform
    /\ states[call.state].transaction_fee_bps = 3333
    /\ Len(transfers) = 2

----------------------------------------------------------------------------
(* The errors of account validation (the #[derive(Accounts)] structs) and  *)
(* of the handlers' require! guards.                                       *)

AccountErrors == {"AccountNotInitialized", "AccountInUse", "ConstraintRaw"}
GuardErrors == {"NotOwner", "AlreadyLicensed", "FeeTooHigh"}

\* The accounts of the last instruction passed validation: its handler ran.
HandlerRan == call.op # "none" /\ result \notin AccountErrors

\* The account at address a exists.
Exists(accounts, a) == accounts[a] # NoAccount

----------------------------------------------------------------------------
(* C2.  Every ProgramState holds transaction_fee_bps <= 10000.  The field  *)
(* is set only by a successful initialize or set_transaction_fee on that   *)
(* state, and each of the two returns FeeTooHigh, writing nothing, when    *)
(* given more than 10000.                                                  *)
C2_FeeBpsBounded ==
    [][/\ \A s \in StateAddrs :
             /\ Exists(states', s) => states'[s].transaction_fee_bps <= 10000
             /\ (/\ Exists(states', s)
                 /\ \/ ~Exists(states, s)
                    \/ states'[s].transaction_fee_bps # states[s].transaction_fee_bps)
                => /\ call'.op \in {"initialize", "set_transaction_fee"}
                   /\ call'.state = s
                   /\ result' = "Ok"
       /\ \A p \in Principals, s \in StateAddrs, fee \in MintFees, bps \in FeeBps :
             (bps > 10000 /\ ~Exists(states, s) /\ Initialize(p, s, fee, bps))
             => (result' = "FeeTooHigh" /\ states' = states)
       /\ \A p \in Principals, s \in StateAddrs, bps \in FeeBps :
             (/\ bps > 10000
              /\ Exists(states, s)
              /\ p = states[s].platform
              /\ SetTransactionFee(p, s, bps))
             => (result' = "FeeTooHigh" /\ states' = states)
      ]_vars

C2_Witness ==
    /\ call.op = "set_transaction_fee"
    /\ result = "FeeTooHigh"
    /\ Exists(states, 1)
    /\ states[1].transaction_fee_bps = 10000
    /\ call.signer = states[1].platform

----------------------------------------------------------------------------
(* C3.  For every ProgramState, next_token_id is the number of successful  *)
(* mints against it, the k-th of them issued token id k-1, and a Character *)
(* holds each id issued.                                                   *)
C3_TokenIdsSequential ==
    \A s \in StateAddrs :
        IF ~Exists(states, s)
        THEN minted[s] = <<>>
        ELSE /\ states[s].next_token_id = U64(Len(minted[s]))
             /\ \A k \in 1..Len(minted[s]) :
                   /\ minted[s][k] = U64(k - 1)
                   /\ \E c \in CharacterAddrs :
                         Exists(characters, c) /\ characters[c].token_id = U64(k - 1)

C3_Witness ==
    /\ Len(minted[1]) = 2
    /\ call.op = "set_transaction_fee"
    /\ result = "NotOwner"
    /\ \E c, d \in CharacterAddrs :
          /\ Exists(characters, c) /\ Exists(characters, d)
          /\ characters[c].token_id = U64(0)
          /\ characters[d].token_id = U64(1)
          /\ characters[c].stage = 2
          /\ characters[c].owner # characters[c].creator
          /\ characters[d].stage = 1

----------------------------------------------------------------------------
(* C4.  No two Characters hold the same token_id.                          *)
C4_TokenIdsUnique ==
    \A c, d \in CharacterAddrs :
        (c # d /\ Exists(characters, c) /\ Exists(characters, d))
        => characters[c].token_id # characters[d].token_id

----------------------------------------------------------------------------
(* C5.  A Character's stage is in 0..4; it is 0 when mint creates the      *)
(* Character; a successful advance_stage on the Character raises it by     *)
(* exactly 1, and every other step leaves it as it is.                     *)
C5_StageStepsByOne ==
    [][\A c \in CharacterAddrs :
          /\ Exists(characters', c) => characters'[c].stage \in 0..4
          /\ (~Exists(characters, c) /\ Exists(characters', c))
             => (characters'[c].stage = 0 /\ call'.op = "mint" /\ result' = "Ok")
          /\ Exists(characters, c)
             => /\ Exists(characters', c)
                /\ characters'[c].stage =
                      IF call'.op = "advance_stage" /\ result' = "Ok" /\ call'.character = c
                      THEN characters[c].stage + 1
                      ELSE characters[c].stage
      ]_vars

C5_Witness ==
    /\ Succeeded("advance_stage")
    /\ characters[1].stage = 4
    /\ characters[1].owner # characters[1].creator
    /\ events = <<StageAdvanced(characters[1].token_id, 4)>>

----------------------------------------------------------------------------
(* C6.  advance_stage succeeds at most 4 times on a Character, and a call  *)
(* by the owner of a Character at stage 4 returns AlreadyLicensed, leaves  *)
(* the Character (its stage and metadata_uri) as it was and emits nothing. *)
C6_AdvanceAtMostFourTimes ==
    [][\A c \in CharacterAddrs :
          /\ advanced'[c] <= 4
          /\ (/\ call'.op = "advance_stage"
              /\ call'.character = c
              /\ Exists(characters, c)
              /\ call'.signer = characters[c].owner
              /\ characters[c].stage = 4)
             => /\ result' = "AlreadyLicensed"
                /\ characters'[c] = characters[c]
                /\ advanced'[c] = advanced[c]
                /\ events' = <<>>
                /\ undone' = <<>>
      ]_vars

C6_Witness ==
    /\ call.op = "advance_stage"
    /\ result = "AlreadyLicensed"
    /\ advanced[1] = 4
    /\ characters[1].stage = 4
    /\ call.signer = characters[1].owner

----------------------------------------------------------------------------
(* C7.  transfer_from signed by anyone but the Character's owner returns   *)
(* NotOwner, whatever the recipient and the sale price; the Character, the *)
(* ProgramState stay as they were, no transfer is made and no event        *)
(* emitted.  (An instruction whose accounts fail validation never reaches  *)
(* the handler.)                                                           *)
C7_NonOwnerTransferRejected ==
    [][(/\ call'.op = "transfer_from"
        /\ HandlerRan'
        /\ call'.signer # characters[call'.character].owner)
       => /\ result' = "NotOwner"
          /\ characters' = characters
          /\ states' = states
          /\ transfers' = <<>>
          /\ events' = <<>>
          /\ undone' = <<>>
      ]_vars

C7_Witness ==
    /\ call.op = "transfer_from"
    /\ result = "NotOwner"
    /\ call.signer = characters[1].creator
    /\ call.signer # characters[1].owner
    /\ characters[1].stage = 3

----------------------------------------------------------------------------
(* C8.  set_transaction_fee signed by the platform returns FeeTooHigh and  *)
(* leaves the fee as it was when given more than 10000, and otherwise      *)
(* stores the fee given.  A successful transfer_from splits the price by   *)
(* the fee the ProgramState holds then; at 10000 its only transfer is the  *)
(* whole price, paid by the recipient to the platform.                     *)
C8_FeeUpdateTakesEffect ==
    [][/\ \A p \in Principals, s \in StateAddrs, bps \in FeeBps :
             (Exists(states, s) /\ p = states[s].platform /\ SetTransactionFee(p, s, bps))
             => IF bps > 10000
                THEN result' = "FeeTooHigh" /\ states' = states
                ELSE result' = "Ok" /\ states'[s].transaction_fee_bps = bps
       /\ (call'.op = "transfer_from" /\ result' = "Ok")
          => LET state == states[call'.state]
                 price == events'[1].price
                 seller == events'[1].from
                 recipient == events'[1].to
             IN  /\ seller # state.platform
                    => IsFloor(PaidTo(transfers', {state.platform}), Wide(price),
                               state.transaction_fee_bps)
                 /\ (state.transaction_fee_bps = 10000 /\ price # U64Zero)
                    => transfers' = <<Transfer(recipient, state.platform, price)>>
      ]_vars

C8_Witness ==
    /\ Succeeded("transfer_from")
    /\ states[1].transaction_fee_bps = 10000
    /\ events[1].from # states[1].platform
    /\ transfers = <<Transfer(events[1].to, states[1].platform, U64(1000))>>

----------------------------------------------------------------------------
(* C9.  mint_fee_lamports changes only by a successful set_mint_fee, and   *)
(* transaction_fee_bps only by a successful set_transaction_fee, signed by *)
(* the platform of that ProgramState; either instruction signed by anyone  *)
(* else returns NotOwner and leaves the ProgramState as it was.            *)
C9_FeesChangeOnlyByPlatform ==
    [][\A s \in StateAddrs :
          Exists(states, s)
          => /\ Exists(states', s)
             /\ states'[s].mint_fee_lamports # states[s].mint_fee_lamports
                => /\ call'.op = "set_mint_fee" /\ result' = "Ok"
                   /\ call'.state = s
                   /\ call'.signer = states[s].platform
             /\ states'[s].transaction_fee_bps # states[s].transaction_fee_bps
                => /\ call'.op = "set_transaction_fee" /\ result' = "Ok"
                   /\ call'.state = s
                   /\ call'.signer = states[s].platform
             /\ (/\ call'.op \in {"set_mint_fee", "set_transaction_fee"}
                 /\ call'.state = s
                 /\ call'.signer # states[s].platform)
                => (result' = "NotOwner" /\ states' = states)
      ]_vars

C9_Witness ==
    /\ call.op = "set_mint_fee"
    /\ result = "NotOwner"
    /\ Exists(states, 1)
    /\ call.signer # states[1].platform
    /\ states[1].mint_fee_lamports = U64(100)
    /\ states[1].transaction_fee_bps = 10000

----------------------------------------------------------------------------
(* C10.  An instruction that fails account validation or a require! guard  *)
(* leaves every ProgramState and Character as it was, makes no transfer    *)
(* and emits no event, and its handler had done nothing that the runtime   *)
(* had to roll back.                                                       *)
C10_GuardFailureIsAtomic ==
    [][result' \in AccountErrors \cup GuardErrors
       => /\ states' = states
          /\ characters' = characters
          /\ transfers' = <<>>
          /\ events' = <<>>
          /\ undone' = <<>>
      ]_vars

C10_Witness ==
    /\ call.op = "set_transaction_fee"
    /\ result = "FeeTooHigh"
    /\ Exists(characters, 1)
    /\ characters[1].stage = 2
    /\ undone = <<>>

----------------------------------------------------------------------------
\* The transfers that pay cut to the platform and then proceeds to the
\* seller, both from the recipient, leaving out an amount of zero.
Requested(recipient, platform, seller, cut, proceeds) ==
    (IF cut # U64Zero
     THEN <<[from |-> recipient, to |-> platform, lamports |-> cut]>>
     ELSE <<>>)
    \o (IF proceeds # U64Zero
        THEN <<[from |-> recipient, to |-> seller, lamports |-> proceeds]>>
        ELSE <<>>)

\* Zero and the amounts of the transfers of seq.
Amounts(seq) == {U64Zero} \cup {seq[i].lamports : i \in DOMAIN seq}

(* C11.  A successful transfer_from signed by the owner A with recipient B *)
(* and sale price p makes B the owner and makes exactly the transfers      *)
(* Requested(B, platform, A, cut, proceeds) with cut = floor(p * fee_bps / *)
(* 10000) and cut + proceeds = p: every transfer is paid by B, the         *)
(* platform's comes first, an amount of zero is left out, and at p = 0     *)
(* there is no transfer.  The signer pays nothing unless the signer is     *)
(* also the recipient.  (p is the price the CharacterTransferred event     *)
(* carries.)                                                               *)
C11_RecipientFundsTransfer ==
    [][(call'.op = "transfer_from" /\ result' = "Ok")
       => \A r \in Principals, pl \in Principals, price \in {events'[1].price} :
             TransferFrom(call'.signer, call'.character, r, pl, call'.state, price)
             => LET A == characters[call'.character].owner
                    state == states[call'.state]
                IN  /\ call'.signer = A
                    /\ characters'[call'.character].owner = r
                    /\ \E cut \in Amounts(transfers'), proceeds \in Amounts(transfers') :
                          /\ transfers' = Requested(r, state.platform, A, cut, proceeds)
                          /\ IsFloor(Wide(cut), Wide(price), state.transaction_fee_bps)
                          /\ Plus(Wide(cut), Wide(proceeds)) = Wide(price)
                    /\ price = U64Zero => transfers' = <<>>
                    /\ \A i \in DOMAIN transfers' : transfers'[i].from = r
                    /\ r # A => \A i \in DOMAIN transfers' : transfers'[i].from # A
      ]_vars

\* C11 as stated: the signer of a successful transfer_from pays no transfer.
C11_CallerNeverPays ==
    [][(call'.op = "transfer_from" /\ result' = "Ok")
       => \A i \in DOMAIN transfers' : transfers'[i].from # call'.signer
      ]_vars

C11_Witness ==
    /\ Succeeded("transfer_from")
    /\ states[1].transaction_fee_bps = 500
    /\ events[1].price = U64(10001)
    /\ events[1].from # events[1].to
    /\ events[1].from # states[1].platform
    /\ transfers = <<[from |-> events[1].to, to |-> states[1].platform,
                      lamports |-> U64(500)],
                     [from |-> events[1].to, to |-> events[1].from,
                      lamports |-> U64(9501)]>>
    /\ characters[1].owner = events[1].to

----------------------------------------------------------------------------
(* C12.  A successful mint signed by A creates a Character with stage 0,   *)
(* owner = creator = A, the metadata_uri and trait_hash given and the      *)
(* token_id the ProgramState held as next_token_id; it makes one transfer  *)
(* of the mint fee the ProgramState holds, from A to the platform, when    *)
(* that fee is not zero, and none when it is zero.  The fee the            *)
(* ProgramState holds is the one the last successful set_mint_fee stored.  *)
C12_MintCreatesAndCharges ==
    [][/\ (call'.op = "mint" /\ result' = "Ok")
          => \A pl \in Principals, uri \in MintUris, h \in TraitHashes, now \in Timestamps :
                Mint(call'.signer, call'.state, call'.character, pl, uri, h, now)
                => LET A == call'.signer
                       state == states[call'.state]
                       record == characters'[call'.character]
                   IN  /\ ~Exists(characters, call'.character)
                       /\ record.stage = 0
                       /\ record.owner = A
                       /\ record.creator = A
                       /\ record.metadata_uri = uri
                       /\ record.trait_hash = h
                       /\ record.token_id = state.next_token_id
                       /\ transfers' =
                             IF state.mint_fee_lamports = U64Zero
                             THEN <<>>
                             ELSE <<[from |-> A, to |-> state.platform,
                                     lamports |-> state.mint_fee_lamports]>>
       /\ (call'.op = "set_mint_fee" /\ result' = "Ok")
          => \A fee \in MintFees :
                SetMintFee(call'.signer, call'.state, fee)
                => states'[call'.state].mint_fee_lamports = fee
       /\ call'.op # "set_mint_fee"
          => \A s \in StateAddrs :
                (Exists(states, s) /\ Exists(states', s))
                => states'[s].mint_fee_lamports = states[s].mint_fee_lamports
      ]_vars

C12_Witness ==
    /\ Succeeded("mint")
    /\ call.signer # states[1].platform
    /\ states[1].mint_fee_lamports = U64(100)
    /\ transfers = <<[from |-> call.signer, to |-> states[1].platform,
                      lamports |-> U64(100)]>>
    /\ characters[1].owner = call.signer
    /\ characters[1].token_id = U64Zero

----------------------------------------------------------------------------
(* C13.  A ProgramState is created only by a successful initialize, with   *)
(* the signer as its platform, and its platform never changes afterwards:  *)
(* not by any instruction, successful or failed, nor by another initialize *)
(* on the same account, which is refused.                                  *)
C13_PlatformSetOnce ==
    [][/\ \A s \in StateAddrs :
             /\ (~Exists(states, s) /\ Exists(states', s))
                => /\ call'.op = "initialize" /\ call'.state = s /\ result' = "Ok"
                   /\ states'[s].platform = call'.signer
             /\ Exists(states, s)
                => /\ Exists(states', s)
                   /\ states'[s].platform = states[s].platform
       /\ (call'.op = "initialize" /\ Exists(states, call'.state))
          => (result' = "AccountInUse" /\ states' = states)
      ]_vars

C13_Witness ==
    /\ call.op = "initialize"
    /\ result = "AccountInUse"
    /\ Exists(states, 1)
    /\ call.signer # states[1].platform
    /\ Exists(characters, 1)
    /\ characters[1].owner # characters[1].creator

----------------------------------------------------------------------------
(* C14.  Once minted, a Character keeps its token_id, creator, created_at  *)
(* and trait_hash for ever; its owner changes only by a successful         *)
(* transfer_from on that Character and its metadata_uri only by a          *)
(* successful advance_stage on that Character.  No instruction changes a   *)
(* Character other than the one it is invoked on.                          *)
C14_FieldsChangeByTheirOperation ==
    [][\A c \in CharacterAddrs :
          Exists(characters, c)
          => /\ Exists(characters', c)
             /\ characters'[c].token_id = characters[c].token_id
             /\ characters'[c].creator = characters[c].creator
             /\ characters'[c].created_at = characters[c].created_at
             /\ characters'[c].trait_hash = characters[c].trait_hash
             /\ characters'[c].owner # characters[c].owner
                => /\ call'.op = "transfer_from" /\ result' = "Ok"
                   /\ call'.character = c
             /\ characters'[c].metadata_uri # characters[c].metadata_uri
                => /\ call'.op = "advance_stage" /\ result' = "Ok"
                   /\ call'.character = c
             /\ (call'.op \in {"initialize", "set_mint_fee", "set_transaction_fee"}
                 \/ call'.character # c)
                => characters'[c] = characters[c]
      ]_vars

C14_Witness ==
    /\ Succeeded("advance_stage")
    /\ call.character = 2
    /\ Exists(characters, 1)
    /\ characters[1].owner # characters[1].creator
    /\ characters[1].stage = 0
    /\ characters[2].stage = 1
    /\ characters[2].metadata_uri # characters[1].metadata_uri
    /\ characters[2].owner # characters[1].owner

----------------------------------------------------------------------------
(* C15.  A successful mint, transfer_from or advance_stage emits exactly   *)
(* one event, and a successful initialize, set_mint_fee or                 *)
(* set_transaction_fee none.  CharacterMinted carries the token_id of the  *)
(* new Character, its creator and the trait_hash given; CharacterTransferred *)
(* the token_id, from = the owner before, to = the recipient and price =   *)
(* the sale price; StageAdvanced the token_id and the stage after the      *)
(* increment.                                                              *)
C15_EventsOfSuccess ==
    [][result' = "Ok"
       => /\ call'.op \in {"initialize", "set_mint_fee", "set_transaction_fee"}
             => events' = <<>>
          /\ call'.op = "mint"
             => \A pl \in Principals, uri \in MintUris, h \in TraitHashes,
                   now \in Timestamps :
                   Mint(call'.signer, call'.state, call'.character, pl, uri, h, now)
                   => events' = <<[event |-> "CharacterMinted",
                                   token_id |-> characters'[call'.character].token_id,
                                   creator |-> call'.signer,
                                   trait_hash |-> h]>>
          /\ call'.op = "transfer_from"
             => \A r \in Principals, pl \in Principals, price \in SalePrices :
                   TransferFrom(call'.signer, call'.character, r, pl, call'.state, price)
                   => events' = <<[event |-> "CharacterTransferred",
                                   token_id |-> characters[call'.character].token_id,
                                   from |-> characters[call'.character].owner,
                                   to |-> r,
                                   price |-> price]>>
          /\ call'.op = "advance_stage"
             => /\ characters'[call'.character].stage
                      = characters[call'.character].stage + 1
                /\ events' = <<[event |-> "StageAdvanced",
                                token_id |-> characters[call'.character].token_id,
                                new_stage |-> characters[call'.character].stage + 1]>>
      ]_vars

C15_Witness ==
    /\ Succeeded("transfer_from")
    /\ events = <<[event |-> "CharacterTransferred",
                   token_id |-> U64Zero,
                   from |-> characters[1].creator,
                   to |-> characters[1].owner,
                   price |-> U64(1000)]>>
    /\ characters[1].owner # characters[1].creator
    /\ characters[1].stage = 2

----------------------------------------------------------------------------
(* C16.  Only the owner controls a Character.  A transfer_from or          *)
(* advance_stage that succeeds is signed by the owner; one signed by       *)
(* anyone else, the creator included, returns NotOwner (when its accounts  *)
(* pass validation) and changes nothing.  A successful transfer_from makes *)
(* the recipient the owner, so the previous owner is refused from then on  *)
(* until a transfer makes them the owner again.  The owner is not refused: *)
(* their advance_stage succeeds below stage 4 and their transfer_from at   *)
(* price 0 succeeds.                                                       *)
C16_ControlFollowsOwnership ==
    [][(call'.op \in {"transfer_from", "advance_stage"}
        /\ Exists(characters, call'.character))
       => LET c == call'.character
              A == characters[c].owner
          IN  /\ result' = "Ok" => call'.signer = A
              /\ (call'.signer # A /\ HandlerRan')
                 => /\ result' = "NotOwner"
                    /\ characters' = characters
              /\ (call'.op = "transfer_from" /\ result' = "Ok")
                 => \A r \in Principals, pl \in Principals, price \in SalePrices :
                       TransferFrom(A, c, r, pl, call'.state, price)
                       => characters'[c].owner = r
              /\ (call'.op = "advance_stage" /\ call'.signer = A)
                 => \A uri \in StageUris :
                       (/\ characters[c].stage < 4
                        /\ uri.bytes <= 256
                        /\ AdvanceStage(A, c, uri))
                       => result' = "Ok"
              /\ (call'.op = "transfer_from" /\ call'.signer = A
                  /\ Exists(states, call'.state))
                 => \A r \in Principals :
                       TransferFrom(A, c, r, states[call'.state].platform,
                                    call'.state, U64Zero)
                       => result' = "Ok"
      ]_vars

C16_Witness ==
    /\ call.op = "advance_stage"
    /\ result = "NotOwner"
    /\ call.signer = characters[1].creator
    /\ call.signer # characters[1].owner
    /\ characters[1].stage = 1
    /\ advanced[1] = 1

----------------------------------------------------------------------------
(* C17.  When the authorization guard and another guard both fail, the     *)
(* instruction returns NotOwner: advance_stage signed by a non-owner on a  *)
(* Character at stage 4 does not return AlreadyLicensed, and               *)
(* set_transaction_fee signed by a non-platform principal with more than   *)
(* 10000 does not return FeeTooHigh.                                       *)
C17_AuthorizationReportedFirst ==
    [][/\ (/\ call'.op = "advance_stage"
           /\ Exists(characters, call'.character)
           /\ characters[call'.character].stage = 4
           /\ call'.signer # characters[call'.character].owner)
          => result' = "NotOwner"
       /\ (/\ call'.op = "set_transaction_fee"
           /\ Exists(states, call'.state)
           /\ call'.signer # states[call'.state].platform)
          => \A bps \in FeeBps :
                (bps > 10000 /\ SetTransactionFee(call'.signer, call'.state, bps))
                => result' = "NotOwner"
      ]_vars

C17_Witness ==
    /\ call.op = "advance_stage"
    /\ result = "NotOwner"
    /\ characters[1].stage = 4
    /\ call.signer # characters[1].owner

----------------------------------------------------------------------------
\* The fee arithmetic of transfer_from at this price and fee runs without a
\* failure: the product fits in 128 bits, the quotient fits in 64 bits (the
\* cast to u64 drops only zeros), the cut does not exceed the price and the
\* subtraction does not underflow.
FeeArithmeticSafe(price, bps) ==
    LET product == CheckedMul(AsU128(price), bps)
        quotient == CheckedDiv(product.value, BpsDenominator)
        platform_cut == PlatformCut(price, bps)
    IN  /\ product.some
        /\ quotient.some
        /\ \A i \in (U64Limbs + 1)..U128Limbs : quotient.value[i] = 0
        /\ ~platform_cut.panic
        /\ platform_cut.value = AsU64(quotient.value)
        /\ ~Less(Wide(price), Wide(platform_cut.value))
        /\ Panicked \notin SellerProceeds(price, platform_cut.value)

(* C18.  In every reachable state the fee arithmetic of transfer_from      *)
(* cannot fail, whatever the sale price: with the fee the ProgramState     *)
(* holds, which is at most 10000, the product does not overflow 128 bits,  *)
(* platform_cut fits in 64 bits and does not exceed the price, so the      *)
(* subtraction does not underflow and no transfer_from panics.  At a fee   *)
(* of 10001 the subtraction would underflow.                               *)
C18_FeeArithmeticCannotFail ==
    /\ result # "Panic"
    /\ \A s \in StateAddrs :
          Exists(states, s)
          => /\ states[s].transaction_fee_bps <= 10000
             /\ \A price \in SplitPrices :
                   FeeArithmeticSafe(price, states[s].transaction_fee_bps)
    /\ ~FeeArithmeticSafe(U64Max, 10001)

C18_Witness ==
    /\ Succeeded("transfer_from")
    /\ states[1].transaction_fee_bps = 10000
    /\ events[1].price = U64Max
    /\ events[1].from # states[1].platform
    /\ transfers = <<[from |-> events[1].to, to |-> states[1].platform,
                      lamports |-> U64Max]>>

----------------------------------------------------------------------------
\* The Character at c exists and is at stage 4.
Licensed(c) == Exists(characters, c) /\ characters[c].stage = 4

(* C19.  A Character at stage 4 stays at stage 4 for ever, and, when its   *)
(* current owner keeps advancing it (weak fairness on the owner's          *)
(* successful advance_stage, whoever the owner becomes through transfers), *)
(* every minted Character eventually reaches stage 4.                      *)
C19_LicensedTerminalAndReached ==
    /\ \A c \in CharacterAddrs : [](Licensed(c) => []Licensed(c))
    /\ \A c \in CharacterAddrs : Exists(characters, c) ~> Licensed(c)

C19_Witness ==
    /\ Succeeded("transfer_from")
    /\ Licensed(1)
    /\ advanced[1] = 4
    /\ characters[1].owner # characters[1].creator

----------------------------------------------------------------------------
\* x is a lamport transfer (not an account write, not an event).
IsTransfer(x) == DOMAIN x = {"from", "to", "lamports"}

(* C20.  When the host refuses a transfer the instruction stops before it  *)
(* has written any account or emitted any event.  A mint whose fee         *)
(* transfer is refused creates no Character and leaves next_token_id as it *)
(* was; a transfer_from whose platform or seller transfer is refused       *)
(* leaves the owner as it was.  All the handler had done by then is the    *)
(* transfers before the refused one.                                       *)
C20_RefusedTransferAbortsBeforeWrites ==
    [][result' = "TransferFailed"
       => /\ call'.op \in {"mint", "transfer_from"}
          /\ states' = states
          /\ characters' = characters
          /\ minted' = minted
          /\ events' = <<>>
          /\ transfers' = <<>>
          /\ \A i \in DOMAIN undone' : IsTransfer(undone'[i])
          /\ call'.op = "mint"
             => /\ undone' = <<>>
                /\ ~Exists(characters', call'.character)
                /\ states'[call'.state].next_token_id
                      = states[call'.state].next_token_id
          /\ call'.op = "transfer_from"
             => /\ Len(undone') <= 1
                /\ characters'[call'.character].owner
                      = characters[call'.character].owner
      ]_vars

C20_Witness ==
    /\ call.op = "transfer_from"
    /\ result = "TransferFailed"
    /\ states[1].transaction_fee_bps = 500
    /\ Len(undone) = 1
    /\ undone[1].from # call.signer
    /\ undone[1].to = states[1].platform
    /\ undone[1].lamports = U64(50)
    /\ characters[1].owner = call.signer
    /\ call.signer # states[1].platform

====
